---- MODULE Spec2Model ----
(***************************************************************************)
(* NAR accessor (src/libstore/nar-accessor.cc): the streaming indexer      *)
(* (NarIndexer), the listing importer, the query surface of NarAccessor    *)
(* and the listing exporter listNar.                                       *)
(*                                                                         *)
(* Representation.  A path string "/a/b" is the sequence <<"a","b">> of    *)
(* its segments ("" is <<>>), so the number of '/' is its length and       *)
(* baseNameOf is its last element.  The tree of NarMember values, each     *)
(* owning its children in a std::map, is the function from the chain of    *)
(* map keys leading to a member (<<>> for root) to that member's own       *)
(* fields; a NarMember* is such a chain.  std::optional<T> is a set with   *)
(* at most one element.  The bytes of the archive are identified by their  *)
(* position, so a slice of the buffer is the sequence of its positions.    *)
(***************************************************************************)
EXTENDS Integers, Sequences, FiniteSets, TLC

\* ------------------------------------------------------------ bounds
MaxDepth == 2
MaxEnter == 4
MaxPos == 2
MaxSize == 1
MaxMalformed == 1
MaxNodes == 3

Names == {"a", "b"}
Targets == {"t"}

Paths == UNION {[1..n -> Names] : n \in 0..MaxDepth}

Min(x, y) == IF x <= y THEN x ELSE y

Top(stack) == stack[Len(stack)]

Parent(path) == SubSeq(path, 1, Len(path) - 1)

IsPrefix(p, q) == Len(p) <= Len(q) /\ SubSeq(q, 1, Len(p)) = p

\* ------------------------------------------------------------ node model
None == {}

Some(v) == {v}

\* createMember(path, {Type::tDirectory, false, 0, 0}): the braces fill the
\* Stat in declaration order (type, fileSize, isExecutable, narOffset).
DirectoryMember ==
    [type |-> "tDirectory", fileSize |-> Some(0), isExecutable |-> FALSE,
     narOffset |-> Some(0), target |-> ""]

RegularMember ==
    [type |-> "tRegular", fileSize |-> Some(0), isExecutable |-> FALSE,
     narOffset |-> Some(0), target |-> ""]

SymlinkMember(target) ==
    [type |-> "tSymlink", fileSize |-> None, isExecutable |-> FALSE,
     narOffset |-> None, target |-> target]

\* A value-initialised NarMember (NarMember root; children[name]).
DefaultMember ==
    [type |-> "tMisc", fileSize |-> None, isExecutable |-> FALSE,
     narOffset |-> None, target |-> ""]

VARIABLES
    ctor,        \* which constructor runs: "string", "source" or "listing"
    phase,       \* "constructing", "ready" (constructor returned), "failed" (it threw)
    nar,         \* std::optional<const std::string> nar: the buffer's length
    getNarBytes, \* GetNarBytes: the length of the buffer the fetcher slices
    root,        \* NarMember root, with everything below it
    parents,     \* NarIndexer::parents
    pos,         \* NarIndexer::pos
    step,        \* history: the indexer callback that ran last
    lastEnter,   \* history: the most recent create* event
    nenter,      \* history: number of create* events so far
    malformed,   \* history: number of create* events that broke the preorder walk
    expect,      \* history: what the events so far declared, by event path
    nonDir,      \* history: event paths entered as regular file or symlink
    lastOffset,  \* history: the narOffset recorded by the last preallocateContents
    built,       \* history: the tree when the constructor returned
    res          \* the last query (or export, or re-import) and its result

vars == <<ctor, phase, nar, getNarBytes, root, parents, pos, step, lastEnter, nenter,
          malformed, expect, nonDir, lastOffset, built, res>>

history == <<lastEnter, nenter, malformed, expect, nonDir, lastOffset>>

\* The events so far are a well-formed preorder stream.
wf == malformed = 0

NoAccessor == [status |-> "none", root |-> <<>>, nar |-> None, getNarBytes |-> None]

NoResult ==
    [op |-> "none", status |-> "none", stat |-> {}, names |-> {}, bytes |-> <<>>,
     link |-> "", objs |-> <<>>, made |-> NoAccessor]

\* ------------------------------------------------------------ streaming indexer
Level(path) == Len(path)

\* baseNameOf("") is "".
BaseNameOf(path) == IF path = <<>> THEN "" ELSE path[Len(path)]

\* A stack that is never popped.
PoppedNever(stack, level) == stack

\* while (parents.size() > level) parents.pop();
Popped(stack, level) == SubSeq(stack, 1, Min(Len(stack), level))

\* children.emplace(name, member): an existing key keeps its member.
Emplace(tree, key, member) ==
    IF key \in DOMAIN tree THEN tree ELSE tree @@ (key :> member)

\* A push that overwrites the top instead of growing the stack.
PushedKeepingTop(stack, key) ==
    IF stack = <<>> THEN <<key>> ELSE [stack EXCEPT ![Len(stack)] = key]

\* parents.push(&result.first->second)
Pushed(stack, key) == Append(stack, key)

CreateMember(path, member) ==
    LET st == Popped(parents, Level(path)) IN
    IF st = <<>>
    THEN /\ root' = (<<>> :> member)
         /\ parents' = Pushed(<<>>, <<>>)
         /\ phase' = phase
    ELSE IF root[Top(st)].type # "tDirectory"
    THEN /\ phase' = "failed"
         /\ root' = root
         /\ parents' = st
    ELSE LET key == Append(Top(st), BaseNameOf(path)) IN
         /\ root' = Emplace(root, key, member)
         /\ parents' = Pushed(st, key)
         /\ phase' = phase

\* The stream so far followed by an enter of `path` is still a preorder walk
\* without duplicates: the root first, then each path once, under the last
\* entered path or one of its ancestors.
InOrderEnter(path) ==
    /\ wf
    /\ path \notin DOMAIN expect
    /\ IF nenter = 0
       THEN path = <<>>
       ELSE path # <<>> /\ IsPrefix(Parent(path), lastEnter.path)

Declared(type, target, seq) ==
    [type |-> type, target |-> target, seq |-> seq, sized |-> FALSE, size |-> 0,
     offset |-> 0, exec |-> FALSE]

\* `limit` bounds the events of the stream that break the preorder walk, and
\* `most` (in the create* actions) the create* events of the stream.
Entered(kind, path, type, target, limit) ==
    /\ step' = kind
    /\ lastEnter' = [kind |-> kind, path |-> path]
    /\ nenter' = nenter + 1
    /\ malformed' = IF InOrderEnter(path) THEN malformed ELSE malformed + 1
    /\ malformed' <= limit
    /\ expect' = IF malformed' = 0
                 THEN expect @@ (path :> Declared(type, target, nenter'))
                 ELSE expect
    /\ nonDir' = IF type = "tDirectory" THEN nonDir ELSE nonDir \cup {path}
    /\ UNCHANGED lastOffset

Indexing == ctor \in {"string", "source"} /\ phase = "constructing"

CreateDirectory(path, limit, most) ==
    /\ Indexing
    /\ nenter < most
    /\ CreateMember(path, DirectoryMember)
    /\ Entered("createDirectory", path, "tDirectory", "", limit)
    /\ UNCHANGED <<ctor, nar, getNarBytes, pos, built, res>>

CreateRegularFile(path, limit, most) ==
    /\ Indexing
    /\ nenter < most
    /\ CreateMember(path, RegularMember)
    /\ Entered("createRegularFile", path, "tRegular", "", limit)
    /\ UNCHANGED <<ctor, nar, getNarBytes, pos, built, res>>

CreateSymlink(path, target, limit, most) ==
    /\ Indexing
    /\ nenter < most
    /\ CreateMember(path, SymlinkMember(target))
    /\ Entered("createSymlink", path, "tSymlink", target, limit)
    /\ UNCHANGED <<ctor, nar, getNarBytes, pos, built, res>>

\* The parser issues isExecutable and preallocateContents only for the regular
\* file it has just created.
InRegularFile == Indexing /\ lastEnter.kind = "createRegularFile"

MarkedExecutable(member) == [member EXCEPT !.isExecutable = TRUE]

IsExecutable ==
    /\ InRegularFile
    /\ step' = "isExecutable"
    /\ root' = [root EXCEPT ![Top(parents)] = MarkedExecutable(@)]
    /\ expect' = IF wf THEN [expect EXCEPT ![lastEnter.path].exec = TRUE] ELSE expect
    /\ UNCHANGED <<ctor, phase, nar, getNarBytes, parents, pos, lastEnter, nenter,
                   malformed, nonDir, lastOffset, built, res>>

\* An offset taken after the contents instead of before them.
PreallocatedPastContents(member, size, at) ==
    [member EXCEPT !.fileSize = Some(size), !.narOffset = Some(at + size)]

Preallocated(member, size, at) ==
    [member EXCEPT !.fileSize = Some(size), !.narOffset = Some(at)]

PreallocateContents(size) ==
    /\ InRegularFile
    /\ step' = "preallocateContents"
    /\ root' = [root EXCEPT ![Top(parents)] = Preallocated(@, size, pos)]
    /\ expect' = IF wf
                 THEN [expect EXCEPT ![lastEnter.path].sized = TRUE,
                                     ![lastEnter.path].size = size,
                                     ![lastEnter.path].offset = pos]
                 ELSE expect
    /\ lastOffset' = root'[Top(parents)].narOffset
    /\ UNCHANGED <<ctor, phase, nar, getNarBytes, parents, pos, lastEnter, nenter,
                   malformed, nonDir, built, res>>

\* pos += n; the counter is 64 bits wide and the model stops reading at MaxPos.
Advanced(at, n) == at + n

Read(n) ==
    /\ Indexing
    /\ Advanced(pos, n) <= MaxPos
    /\ step' = "read"
    /\ pos' = Advanced(pos, n)
    /\ UNCHANGED <<ctor, phase, nar, getNarBytes, root, parents, history, built, res>>

NoEnter == [kind |-> "none", path |-> <<>>]

\* parseDump returns, having created at least the root, and the constructor
\* returns: the indexer (a local of the constructor) is gone.
ParseDone ==
    /\ Indexing
    /\ nenter > 0
    /\ phase' = "ready"
    /\ built' = root
    /\ parents' = <<>>
    /\ pos' = 0
    /\ step' = "none"
    /\ lastEnter' = NoEnter
    /\ nenter' = 0
    /\ malformed' = 0
    /\ expect' = <<>>
    /\ nonDir' = {}
    /\ lastOffset' = None
    /\ UNCHANGED <<ctor, nar, getNarBytes, root, res>>

\* ------------------------------------------------------------ listing importer
\* A listing is the function from the chain of "entries" keys leading to a JSON
\* object to that object's own keys, each absent ({}) or present ({value}).
JsonObject(type, size, executable, narOffset, target) ==
    [type |-> type, size |-> size, executable |-> executable,
     narOffset |-> narOffset, target |-> target]

Absent == {}

RegularObjects ==
    {JsonObject("regular", size, executable, narOffset, Absent) :
        size \in {Absent, {1}}, executable \in {Absent, {TRUE}},
        narOffset \in {Absent, {1}}}

Objects ==
    RegularObjects
    \cup {JsonObject("directory", Absent, Absent, Absent, Absent),
          JsonObject("fifo", Absent, Absent, Absent, Absent),
          JsonObject("symlink", Absent, Absent, Absent, Absent),
          JsonObject("symlink", Absent, Absent, Absent, {"t"})}

ListingDomains == {{<<>>}, {<<>>, <<"a">>}}

Listings == UNION {[D -> Objects] : D \in ListingDomains}

\* v["size"], v["narOffset"]: a missing key reads as null.  Converting null to
\* std::optional<uint64_t> gives nullopt where an optional serializer is in
\* scope and throws otherwise; nullIsNone says which build this is.
JsonThrows(obj, nullIsNone) ==
    /\ obj.type = "regular"
    /\ ~nullIsNone
    /\ (obj.size = Absent \/ obj.narOffset = Absent)

\* The body of `recurse` for one object, its entries apart.
Imported(obj) ==
    IF obj.type = "directory"
    THEN [DefaultMember EXCEPT !.type = "tDirectory"]
    ELSE IF obj.type = "regular"
    THEN [type |-> "tRegular", fileSize |-> obj.size,
          isExecutable |-> obj.executable # Absent,
          narOffset |-> obj.narOffset, target |-> ""]
    ELSE IF obj.type = "symlink"
    THEN [DefaultMember EXCEPT !.type = "tSymlink",
                               !.target = IF obj.target = Absent THEN ""
                                          ELSE CHOOSE t \in obj.target : TRUE]
    ELSE DefaultMember

Entries(objs, path) ==
    {name \in Names : Append(path, name) \in DOMAIN objs}

\* The objects `recurse` visits from `path` down: the entries of directories.
RECURSIVE Visited(_, _)
Visited(objs, path) ==
    {path} \cup
    IF objs[path].type = "directory"
    THEN UNION {Visited(objs, Append(path, name)) : name \in Entries(objs, path)}
    ELSE {}

ImportListing(objs, nullIsNone, fetcher) ==
    LET seen == Visited(objs, <<>>) IN
    IF \E path \in seen : JsonThrows(objs[path], nullIsNone)
    THEN [status |-> "failed", root |-> (<<>> :> DefaultMember), nar |-> None,
          getNarBytes |-> fetcher]
    ELSE [status |-> "ready", root |-> [path \in seen |-> Imported(objs[path])],
          nar |-> None, getNarBytes |-> fetcher]

\* ------------------------------------------------------------ accessor
Children(tree, at) == {name \in Names : Append(at, name) \in DOMAIN tree}

RECURSIVE FindFrom(_, _, _)
FindFrom(tree, current, rest) ==
    IF rest = <<>> THEN Some(current)
    ELSE IF tree[current].type # "tDirectory" THEN None
    ELSE IF Head(rest) \notin Children(tree, current) THEN None
    ELSE FindFrom(tree, Append(current, Head(rest)), Tail(rest))

Find(tree, path) == FindFrom(tree, <<>>, path)

\* A lookup with children[name], which inserts the names it does not find.
AfterFindInserting(tree, path) ==
    IF Find(tree, path) = None /\ path # <<>> /\ Find(tree, Parent(path)) # None
    THEN tree @@ (path :> DefaultMember)
    ELSE tree

\* find() looks names up with children.find(): the tree is as it was.
AfterFind(tree, path) == tree

StatOf(member) ==
    [type |-> member.type, fileSize |-> member.fileSize,
     isExecutable |-> member.isExecutable, narOffset |-> member.narOffset]

Result(op, status) == [NoResult EXCEPT !.op = op, !.status = status]

MaybeLstat(acc, path) ==
    LET i == Find(acc.root, path) IN
    [Result("maybeLstat", "ok") EXCEPT !.stat = {StatOf(acc.root[at]) : at \in i}]

ReadDirectory(acc, path) ==
    LET i == Find(acc.root, path) IN
    IF i = None THEN Result("readDirectory", "NotFound")
    ELSE LET at == CHOOSE x \in i : TRUE IN
         IF acc.root[at].type # "tDirectory"
         THEN Result("readDirectory", "WrongType")
         ELSE [Result("readDirectory", "ok") EXCEPT !.names = Children(acc.root, at)]

ReadLink(acc, path) ==
    LET i == Find(acc.root, path) IN
    IF i = None THEN Result("readLink", "NotFound")
    ELSE LET at == CHOOSE x \in i : TRUE IN
         IF acc.root[at].type # "tSymlink"
         THEN Result("readLink", "WrongType")
         ELSE [Result("readLink", "ok") EXCEPT !.link = acc.root[at].target]

\* std::string(buffer, offset, length), and a fetcher doing the same.
Slice(op, length, offset, size) ==
    IF offset > length THEN Result(op, "OutOfRange")
    ELSE [Result(op, "ok") EXCEPT
            !.bytes = [k \in 1..Min(size, length - offset) |-> offset + k - 1]]

\* *i.stat.narOffset and *i.stat.fileSize of an empty optional are undefined:
\* the read yields any value, or the process stops.
Deref(opt, any) == IF opt = None THEN any ELSE opt

ReadFile(acc, path) ==
    LET i == Find(acc.root, path) IN
    IF i = None THEN {Result("readFile", "NotFound")}
    ELSE LET at == CHOOSE x \in i : TRUE
             st == acc.root[at]
         IN  IF st.type # "tRegular" THEN {Result("readFile", "WrongType")}
             ELSE IF acc.getNarBytes = None /\ acc.nar = None
             THEN {Result("readFile", "AssertNar")}
             ELSE LET buffer == IF acc.getNarBytes # None THEN acc.getNarBytes ELSE acc.nar
                  IN  {Slice("readFile", length, offset, size) :
                          length \in buffer,
                          offset \in Deref(st.narOffset, 0..MaxPos),
                          size \in Deref(st.fileSize, 0..MaxSize)}
                      \cup IF st.narOffset = None \/ st.fileSize = None
                           THEN {Result("readFile", "Undefined")}
                           ELSE {}

This == [status |-> phase, root |-> root, nar |-> nar, getNarBytes |-> getNarBytes]

Queried(path) ==
    /\ phase = "ready"
    /\ root' = AfterFind(root, path)
    /\ UNCHANGED <<ctor, phase, nar, getNarBytes, parents, pos, step, history, built>>

MaybeLstatCall(path) ==
    /\ Queried(path)
    /\ res' = MaybeLstat(This, path)

ReadDirectoryCall(path) ==
    /\ Queried(path)
    /\ res' = ReadDirectory(This, path)

ReadFileCall(path) ==
    /\ Queried(path)
    /\ res' \in ReadFile(This, path)

ReadLinkCall(path) ==
    /\ Queried(path)
    /\ res' = ReadLink(This, path)

\* ------------------------------------------------------------ listing exporter
Exported(st, link) ==
    IF st.type = "tRegular"
    THEN JsonObject("regular", st.fileSize,
                    IF st.isExecutable THEN {TRUE} ELSE Absent,
                    {o \in st.narOffset : o # 0}, Absent)
    ELSE IF st.type = "tDirectory"
    THEN JsonObject("directory", Absent, Absent, Absent, Absent)
    ELSE IF st.type = "tSymlink"
    THEN JsonObject("symlink", Absent, Absent, Absent, {link})
    ELSE JsonObject("assert(false)", Absent, Absent, Absent, Absent)

\* The paths listNar(accessor, path, true) calls itself on.
RECURSIVE Listed(_, _)
Listed(acc, path) ==
    {path} \cup
    IF \E st \in MaybeLstat(acc, path).stat : st.type = "tDirectory"
    THEN UNION {Listed(acc, Append(path, name)) : name \in ReadDirectory(acc, path).names}
    ELSE {}

ListNar(acc) ==
    LET seen == Listed(acc, <<>>)
        objs == [path \in seen |->
                   Exported(CHOOSE st \in MaybeLstat(acc, path).stat : TRUE,
                            ReadLink(acc, path).link)]
    IN  IF \E path \in seen : objs[path].type = "assert(false)"
        THEN Result("listNar", "AssertMisc")
        ELSE [Result("listNar", "ok") EXCEPT !.objs = objs]

ListNarCall ==
    /\ Queried(<<>>)
    /\ res' = ListNar(This)

\* makeLazyNarAccessor over the listing just exported, with a fetcher that
\* slices the buffer this accessor owns.
Reimport(nullIsNone) ==
    /\ phase = "ready"
    /\ nar # None
    /\ res.op = "listNar"
    /\ res.status = "ok"
    /\ res' = [Result("makeLazyNarAccessor", "ok") EXCEPT
                 !.made = ImportListing(res.objs, nullIsNone, nar)]
    /\ UNCHANGED <<ctor, phase, nar, getNarBytes, root, parents, pos, step, history, built>>

\* NarAccessor(const std::string & listing, GetNarBytes getNarBytes)
ListingConstructor(objs, nullIsNone) ==
    /\ ctor = "listing"
    /\ phase = "constructing"
    /\ LET made == ImportListing(objs, nullIsNone, getNarBytes) IN
       /\ phase' = made.status
       /\ root' = made.root
       /\ built' = made.root
    /\ UNCHANGED <<ctor, nar, getNarBytes, parents, pos, step, history, res>>

Init ==
    /\ ctor \in {"string", "source", "listing"}
    /\ phase = "constructing"
    /\ nar = IF ctor = "string" THEN Some(MaxPos) ELSE None
    /\ getNarBytes = IF ctor = "listing" THEN Some(MaxPos) ELSE None
    /\ root = (<<>> :> DefaultMember)
    /\ parents = <<>>
    /\ pos = 0
    /\ step = "none"
    /\ lastEnter = NoEnter
    /\ nenter = 0
    /\ malformed = 0
    /\ expect = <<>>
    /\ nonDir = {}
    /\ lastOffset = None
    /\ built = root
    /\ res = NoResult

\* The streaming constructors, event by event, over streams in preorder.
Next ==
    \/ \E path \in Paths : CreateDirectory(path, 0, MaxEnter)
    \/ \E path \in Paths : CreateRegularFile(path, 0, MaxEnter)
    \/ \E path \in Paths, target \in Targets : CreateSymlink(path, target, 0, MaxEnter)
    \/ IsExecutable
    \/ \E size \in 1..MaxSize : PreallocateContents(size)
    \/ \E n \in 1..MaxPos : Read(n)
    \/ ParseDone

Spec == Init /\ [][Next]_vars

\* The same over streams with up to MaxMalformed events out of preorder.
NextAny ==
    \/ \E path \in Paths : CreateDirectory(path, MaxMalformed, MaxEnter)
    \/ \E path \in Paths : CreateRegularFile(path, MaxMalformed, MaxEnter)
    \/ \E path \in Paths, target \in Targets :
          CreateSymlink(path, target, MaxMalformed, MaxEnter)
    \/ IsExecutable
    \/ \E size \in 1..MaxSize : PreallocateContents(size)
    \/ \E n \in 1..MaxPos : Read(n)
    \/ ParseDone

SpecAny == Init /\ [][NextAny]_vars

\* The three constructors (the streaming ones over preorder streams of up to
\* MaxNodes entries), then the queries and the exporter.
NextAccessor ==
    \/ \E path \in Paths : CreateDirectory(path, 0, MaxNodes)
    \/ \E path \in Paths : CreateRegularFile(path, 0, MaxNodes)
    \/ \E path \in Paths, target \in Targets : CreateSymlink(path, target, 0, MaxNodes)
    \/ IsExecutable
    \/ \E size \in 1..MaxSize : PreallocateContents(size)
    \/ \E n \in 1..MaxPos : Read(n)
    \/ ParseDone
    \/ \E objs \in Listings, nullIsNone \in BOOLEAN : ListingConstructor(objs, nullIsNone)
    \/ \E path \in Paths : MaybeLstatCall(path)
    \/ \E path \in Paths : ReadDirectoryCall(path)
    \/ \E path \in Paths : ReadFileCall(path)
    \/ \E path \in Paths : ReadLinkCall(path)
    \/ ListNarCall
    \/ \E nullIsNone \in BOOLEAN : Reimport(nullIsNone)

SpecAccessor == Init /\ [][NextAccessor]_vars

\* ------------------------------------------------------------ properties
EnterKinds == {"createDirectory", "createRegularFile", "createSymlink"}

\* This step is a create* callback.
EnterStep == step' \in EnterKinds /\ nenter' = nenter + 1

Chain(path) == [k \in 1..(Len(path) + 1) |-> SubSeq(path, 1, k - 1)]

Mirrors ==
    /\ DOMAIN root = DOMAIN expect
    /\ \A path \in DOMAIN expect :
         /\ root[path].type = expect[path].type
         /\ expect[path].type = "tSymlink" => root[path].target = expect[path].target
         /\ expect[path].type = "tRegular" =>
              /\ root[path].isExecutable = expect[path].exec
              /\ expect[path].sized =>
                   /\ root[path].fileSize = Some(expect[path].size)
                   /\ root[path].narOffset = Some(expect[path].offset)

\* C1: after every event of a well-formed preorder stream without duplicate
\* paths, the tree has exactly one node per entered path, at the place the
\* path names (under its parent, keyed by its last segment), of the entered
\* type (and target); every regular file's isExecutable says whether
\* isExecutable was issued for it, and its fileSize and narOffset are the
\* declared size and the byte position at its preallocateContents.
C1_TreeMirrorsEvents == (Indexing /\ wf /\ nenter > 0) => Mirrors

C1_Witness ==
    /\ Indexing /\ wf
    /\ \E file, link \in DOMAIN expect :
         /\ Len(file) = 2
         /\ expect[file].type = "tRegular"
         /\ expect[file].sized /\ expect[file].exec /\ expect[file].offset > 0
         /\ expect[link].type = "tSymlink"
         /\ expect[link].seq > expect[file].seq
         /\ Len(link) = 1

\* C2: a create* event whose path's parent was entered before as a regular
\* file or a symlink makes the constructor throw at that event, attaching
\* nothing.
C2_ChildOfNonDirectoryFails ==
    [][(EnterStep /\ lastEnter'.path # <<>> /\ Parent(lastEnter'.path) \in nonDir)
          => (phase' = "failed" /\ root' = root)]_vars

\* C3: once the root is entered, a create* event whose depth exceeds the size
\* of the ancestor stack (its parent has not been entered) makes the
\* constructor throw, attaching nothing.
C3_MissingParentFails ==
    [][(EnterStep /\ parents # <<>> /\ Level(lastEnter'.path) > Len(parents))
          => (phase' = "failed" /\ root' = root)]_vars

\* C4: the accessor re-imported from listNar's recursive listing of an
\* owned-buffer accessor, with a fetcher slicing the same buffer, answers
\* maybeLstat, readDirectory, readFile and readLink on every path as the
\* original does.
C4_RoundTripPreservesQueries ==
    res.op = "makeLazyNarAccessor" =>
        /\ res.made.status = "ready"
        /\ \A path \in Paths :
             /\ MaybeLstat(res.made, path) = MaybeLstat(This, path)
             /\ ReadDirectory(res.made, path) = ReadDirectory(This, path)
             /\ ReadFile(res.made, path) = ReadFile(This, path)
             /\ ReadLink(res.made, path) = ReadLink(This, path)

\* C5: in every constructed accessor, at every node: children only under a
\* directory; fileSize or narOffset present, or isExecutable true, only on a
\* regular file; a non-empty target only on a symlink.
C5_FieldsMatchType ==
    phase = "ready" =>
        \A at \in DOMAIN root :
            /\ Children(root, at) # {} => root[at].type = "tDirectory"
            /\ (root[at].fileSize # None \/ root[at].narOffset # None
                \/ root[at].isExecutable) => root[at].type = "tRegular"
            /\ root[at].target # "" => root[at].type = "tSymlink"

\* C6: in every constructed accessor every node reachable from the root is a
\* regular file, a directory or a symlink, and listNar never reaches its
\* assert(false).
C6_NoMiscType ==
    phase = "ready" =>
        /\ \A at \in DOMAIN root :
             Find(root, at) # None =>
                 root[at].type \in {"tRegular", "tDirectory", "tSymlink"}
        /\ res.status # "AssertMisc"

\* C7: every constructed accessor holds the buffer or a fetcher, and readFile
\* never reaches a failing assert(nar).
C7_ContentStrategyHeld ==
    phase = "ready" =>
        /\ nar # None \/ getNarBytes # None
        /\ res.status # "AssertNar"

\* C8: once the constructor has returned, whatever queries have run, the tree
\* is the tree the constructor left.
C8_QueriesLeaveTree == phase = "ready" => root = built

C8_Witness ==
    /\ phase = "ready"
    /\ ctor = "string"
    /\ Cardinality(DOMAIN root) > 2
    /\ res.op = "readFile"
    /\ res.status = "NotFound"

OffsetsInOrder ==
    (Indexing /\ wf) =>
        \A p, q \in DOMAIN expect :
            (/\ expect[p].type = "tRegular" /\ expect[p].sized
             /\ expect[q].type = "tRegular" /\ expect[q].sized
             /\ expect[p].seq < expect[q].seq)
            => \A x \in root[p].narOffset, y \in root[q].narOffset : x <= y

C10_StackIsAncestorChain ==
    [][(phase' = "constructing" /\ malformed' = 0 /\ nenter' > 0) =>
         /\ EnterStep =>
              LET path == lastEnter'.path
                  st == Popped(parents, Level(path))
              IN  /\ Len(st) = Level(path)
                  /\ st # <<>> => Top(st) = Parent(path)
         /\ parents' = Chain(lastEnter'.path)
         /\ Top(parents') = lastEnter'.path]_vars

C10_Witness ==
    /\ Indexing /\ wf
    /\ Len(parents) = 2
    /\ \E deep \in DOMAIN root : Len(deep) = 2
    /\ step = "preallocateContents"

====
